---- MODULE Spec2Model ----
(***************************************************************************)
(* Lecture feedback tool: the in-memory session registry (sessions.js) and *)
(* the Socket.io event handlers that drive it (index.js).                  *)
(*                                                                         *)
(* Strings are sequences of one-character strings, so that toUpperCase()   *)
(* and trim() are computed and not assumed.  A JS Map is a function whose  *)
(* DOMAIN is the set of keys present.  null / undefined is the record Null.*)
(***************************************************************************)
EXTENDS Integers, Sequences, FiniteSets, TLC

(* ------------------------------ bounds -------------------------------- *)

\* number of socket ids the transport ever hands out
MaxConns == 2
\* number of distinct outcomes of the six Math.random() draws of one code
MaxDraws == 2
\* number of clock steps of half a throttle window each
MaxTicks == 2
\* number of steps (client events, disconnects, clock steps) of one run
MaxEvents == 4

(* ------------------------- program constants -------------------------- *)

THROTTLE_MS == 500
CODE_LEN == 6
FEEDBACK_LEVELS == <<"gotit", "neutral", "confused", "lost">>
chars ==
  << "A", "B", "C", "D", "E", "F", "G", "H", "J", "K", "L", "M", "N", "P", "Q", "R",
     "S", "T", "U", "V", "W", "X", "Y", "Z", "2", "3", "4", "5", "6", "7", "8", "9" >>

Null == [null |-> TRUE]

Range(s) == {s[i] : i \in 1..Len(s)}
Levels == Range(FEEDBACK_LEVELS)

(* ------------------------------ JS Map -------------------------------- *)

EmptyMap == [k \in {} |-> Null]
MapHas(m, k) == k \in DOMAIN m
MapSet(m, k, v) == [x \in (DOMAIN m) \cup {k} |-> IF x = k THEN v ELSE m[x]]
MapDelete(m, k) == [x \in (DOMAIN m) \ {k} |-> m[x]]
MapSize(m) == Cardinality(DOMAIN m)

(* ----------------------------- JS strings ----------------------------- *)

UpperLetters ==
  << "A", "B", "C", "D", "E", "F", "G", "H", "I", "J", "K", "L", "M",
     "N", "O", "P", "Q", "R", "S", "T", "U", "V", "W", "X", "Y", "Z" >>
LowerLetters ==
  << "a", "b", "c", "d", "e", "f", "g", "h", "i", "j", "k", "l", "m",
     "n", "o", "p", "q", "r", "s", "t", "u", "v", "w", "x", "y", "z" >>
Whitespace == {" "}

UpperOf == [ch \in Range(LowerLetters) |-> UpperLetters[CHOOSE i \in 1..Len(LowerLetters) : LowerLetters[i] = ch]]
LowerOf == [ch \in Range(UpperLetters) |-> LowerLetters[CHOOSE i \in 1..Len(UpperLetters) : UpperLetters[i] = ch]]
UpperChar(ch) == IF ch \in DOMAIN UpperOf THEN UpperOf[ch] ELSE ch
LowerChar(ch) == IF ch \in DOMAIN LowerOf THEN LowerOf[ch] ELSE ch

toUpperCase(s) == [i \in 1..Len(s) |-> UpperChar(s[i])]
toLowerCase(s) == [i \in 1..Len(s) |-> LowerChar(s[i])]

RECURSIVE trimStart(_)
trimStart(s) ==
  IF s # <<>> /\ Head(s) \in Whitespace THEN trimStart(Tail(s)) ELSE s
RECURSIVE trimEnd(_)
trimEnd(s) ==
  IF s # <<>> /\ s[Len(s)] \in Whitespace THEN trimEnd(SubSeq(s, 1, Len(s) - 1)) ELSE s
trim(s) == trimEnd(trimStart(s))

\* (code || "").toUpperCase().trim(); an absent code is the empty string
normalize(code) == trim(toUpperCase(code))

(* ------------------------- sessions.js: registry ---------------------- *)
(* A registry value is a record with the two primary data stores:         *)
(*   sessions        : code -> [teacherSocketId, clients]                  *)
(*   socketToSession : socketId -> [code, role]                            *)
(* Every operation returns the stores after the call and its return value *)
(* in the field ret.  createdAt is written once and read nowhere; it is  *)
(* left out of the session record.                                         *)

Result(r, sess, s2s) == [ret |-> r, sessions |-> sess, socketToSession |-> s2s]

\* one outcome of the six draws Math.floor(Math.random() * chars.length)
RandomDraws == {[i \in 1..CODE_LEN |-> (n * i) % Len(chars)] : n \in 0..(MaxDraws - 1)}
CodeOfDraw(d) == [i \in 1..CODE_LEN |-> chars[d[i] + 1]]
AllCodes == {CodeOfDraw(d) : d \in RandomDraws}

\* generateCode without the while (sessions.has(code)) retry
generateCode_NoRetry(reg) == AllCodes

\* the codes the do-while loop can leave with: drawn, and not a key of sessions
generateCode(reg) == {code \in AllCodes : ~MapHas(reg.sessions, code)}

\* createSession, given the code its call of generateCode returned
createSession(reg, teacherSocketId, code) ==
  Result(code,
         MapSet(reg.sessions, code,
                [teacherSocketId |-> teacherSocketId, clients |-> EmptyMap]),
         MapSet(reg.socketToSession, teacherSocketId, [code |-> code, role |-> "teacher"]))

sessionExists(reg, code) == MapHas(reg.sessions, code)

\* addStudent that leaves the level of a connection already in clients as it is
addStudent_KeepsLevel(reg, code, socketId) ==
  IF ~MapHas(reg.sessions, code)
  THEN Result(FALSE, reg.sessions, reg.socketToSession)
  ELSE Result(TRUE,
              [reg.sessions EXCEPT ![code].clients =
                 IF MapHas(@, socketId) THEN @ ELSE MapSet(@, socketId, "neutral")],
              MapSet(reg.socketToSession, socketId, [code |-> code, role |-> "student"]))

addStudent(reg, code, socketId) ==
  IF ~MapHas(reg.sessions, code)
  THEN Result(FALSE, reg.sessions, reg.socketToSession)
  ELSE Result(TRUE,
              [reg.sessions EXCEPT ![code].clients = MapSet(@, socketId, "neutral")],
              MapSet(reg.socketToSession, socketId, [code |-> code, role |-> "student"]))

\* updateFeedback without the session.clients.has(socketId) check
updateFeedback_NoMemberCheck(reg, code, socketId, level) ==
  IF level \notin Levels
  THEN Result(FALSE, reg.sessions, reg.socketToSession)
  ELSE IF ~MapHas(reg.sessions, code)
  THEN Result(FALSE, reg.sessions, reg.socketToSession)
  ELSE Result(TRUE,
              [reg.sessions EXCEPT ![code].clients = MapSet(@, socketId, level)],
              reg.socketToSession)

\* updateFeedback writing the level to every entry of session.clients
updateFeedback_AllClients(reg, code, socketId, level) ==
  IF level \notin Levels
  THEN Result(FALSE, reg.sessions, reg.socketToSession)
  ELSE IF ~MapHas(reg.sessions, code) \/ ~MapHas(reg.sessions[code].clients, socketId)
  THEN Result(FALSE, reg.sessions, reg.socketToSession)
  ELSE Result(TRUE,
              [reg.sessions EXCEPT ![code].clients = [p \in DOMAIN @ |-> level]],
              reg.socketToSession)

\* updateFeedback without the FEEDBACK_LEVELS.includes(level) check
updateFeedback_NoLevelCheck(reg, code, socketId, level) ==
  IF ~MapHas(reg.sessions, code) \/ ~MapHas(reg.sessions[code].clients, socketId)
  THEN Result(FALSE, reg.sessions, reg.socketToSession)
  ELSE Result(TRUE,
              [reg.sessions EXCEPT ![code].clients = MapSet(@, socketId, level)],
              reg.socketToSession)

updateFeedback(reg, code, socketId, level) ==
  IF level \notin Levels
  THEN Result(FALSE, reg.sessions, reg.socketToSession)
  ELSE IF ~MapHas(reg.sessions, code) \/ ~MapHas(reg.sessions[code].clients, socketId)
  THEN Result(FALSE, reg.sessions, reg.socketToSession)
  ELSE Result(TRUE,
              [reg.sessions EXCEPT ![code].clients = MapSet(@, socketId, level)],
              reg.socketToSession)

\* the loop  for (const level of session.clients.values()) counts[level]++
RECURSIVE countLevels(_, _, _)
countLevels(clients, todo, counts) ==
  IF todo = {}
  THEN counts
  ELSE LET s == CHOOSE x \in todo : TRUE
       IN  countLevels(clients, todo \ {s}, [counts EXCEPT ![clients[s]] = @ + 1])

\* getAggregate counting the teacher in total
getAggregate_CountsTeacher(reg, code) ==
  IF ~MapHas(reg.sessions, code)
  THEN Null
  ELSE LET clients == reg.sessions[code].clients
           counts == countLevels(clients, DOMAIN clients,
                                 [gotit |-> 0, neutral |-> 0, confused |-> 0, lost |-> 0])
       IN  [gotit |-> counts.gotit, neutral |-> counts.neutral,
            confused |-> counts.confused, lost |-> counts.lost,
            total |-> MapSize(clients) + 1]

getAggregate(reg, code) ==
  IF ~MapHas(reg.sessions, code)
  THEN Null
  ELSE LET clients == reg.sessions[code].clients
           counts == countLevels(clients, DOMAIN clients,
                                 [gotit |-> 0, neutral |-> 0, confused |-> 0, lost |-> 0])
       IN  [gotit |-> counts.gotit, neutral |-> counts.neutral,
            confused |-> counts.confused, lost |-> counts.lost,
            total |-> MapSize(clients)]

\* removeSocket without session.clients.delete(socketId)
removeSocket_KeepsClient(reg, socketId) ==
  IF ~MapHas(reg.socketToSession, socketId)
  THEN Result(Null, reg.sessions, reg.socketToSession)
  ELSE Result(reg.socketToSession[socketId], reg.sessions,
              MapDelete(reg.socketToSession, socketId))

\* removeSocket ending the session of a departing teacher
removeSocket_EndsTeacherSession(reg, socketId) ==
  IF ~MapHas(reg.socketToSession, socketId)
  THEN Result(Null, reg.sessions, reg.socketToSession)
  ELSE LET info == reg.socketToSession[socketId]
       IN  Result(info,
                  IF MapHas(reg.sessions, info.code) /\ info.role = "student"
                  THEN [reg.sessions EXCEPT ![info.code].clients = MapDelete(@, socketId)]
                  ELSE MapDelete(reg.sessions, info.code),
                  MapDelete(reg.socketToSession, socketId))

removeSocket(reg, socketId) ==
  IF ~MapHas(reg.socketToSession, socketId)
  THEN Result(Null, reg.sessions, reg.socketToSession)
  ELSE LET info == reg.socketToSession[socketId]
       IN  Result(info,
                  IF MapHas(reg.sessions, info.code) /\ info.role = "student"
                  THEN [reg.sessions EXCEPT ![info.code].clients = MapDelete(@, socketId)]
                  ELSE reg.sessions,
                  MapDelete(reg.socketToSession, socketId))

\* endSession without the loop over session.clients.keys()
endSession_KeepsClientEntries(reg, code) ==
  IF ~MapHas(reg.sessions, code)
  THEN Result(FALSE, reg.sessions, reg.socketToSession)
  ELSE Result(TRUE,
              MapDelete(reg.sessions, code),
              MapDelete(reg.socketToSession, reg.sessions[code].teacherSocketId))

\* endSession without socketToSession.delete(session.teacherSocketId)
endSession_KeepsTeacherEntry(reg, code) ==
  IF ~MapHas(reg.sessions, code)
  THEN Result(FALSE, reg.sessions, reg.socketToSession)
  ELSE Result(TRUE,
              MapDelete(reg.sessions, code),
              [x \in (DOMAIN reg.socketToSession) \ DOMAIN reg.sessions[code].clients
                 |-> reg.socketToSession[x]])

endSession(reg, code) ==
  IF ~MapHas(reg.sessions, code)
  THEN Result(FALSE, reg.sessions, reg.socketToSession)
  ELSE LET session == reg.sessions[code]
           gone == {session.teacherSocketId} \cup DOMAIN session.clients
       IN  Result(TRUE,
                  MapDelete(reg.sessions, code),
                  [x \in (DOMAIN reg.socketToSession) \ gone |-> reg.socketToSession[x]])

(* ------------------------ index.js: event handlers -------------------- *)
(* A server value is a record with the registry stores, lastFeedbackTime  *)
(* and the transport's rooms (room name -> set of socket ids).  A handler *)
(* returns the server value after it ran, with its emissions, in order,   *)
(* in the field out.                                                       *)

TickMs == THROTTLE_MS \div 2
\* Date.now() when the process starts: any value of at least one throttle window
StartTime == 2 * THROTTLE_MS

ConnNames == << "s1", "s2", "s3", "s4" >>
Conns == {ConnNames[i] : i \in 1..MaxConns}

\* what a client puts in the code field of a payload: a code typed in lower
\* case with surrounding blanks (a code typed exactly is the case in which
\* toUpperCase and trim change nothing), or nothing at all
Decorated(code) == << " " >> \o toLowerCase(code) \o << " " >>
CodeInputs == {Decorated(code) : code \in AllCodes} \cup {<< >>}
LevelInputs == Levels \cup {"bogus"}

Emission(event, to, payload) == [event |-> event, to |-> to, payload |-> payload]

RoomOf(rooms, room) == IF MapHas(rooms, room) THEN rooms[room] ELSE {}
\* socket.join(room)
socketJoin(rooms, socketId, room) == MapSet(rooms, room, RoomOf(rooms, room) \cup {socketId})
\* the transport takes a closing socket out of every room, and drops empty rooms
leaveAll(rooms, socketId) ==
  [room \in {r \in DOMAIN rooms : rooms[r] \ {socketId} # {}} |-> rooms[room] \ {socketId}]

Handled(reg, lft, rooms, out) ==
  [sessions |-> reg.sessions, socketToSession |-> reg.socketToSession,
   lastFeedbackTime |-> lft, rooms |-> rooms, out |-> out]

onCreateSession(srv, socketId, code) ==
  LET r == createSession(srv, socketId, code)
  IN  Handled(r, srv.lastFeedbackTime, socketJoin(srv.rooms, socketId, r.ret),
              << Emission("sessionCreated", {socketId}, [code |-> r.ret]) >>)

\* the joinSession handler calling socket.join before it looks the code up
onJoinSession_JoinsRoomFirst(srv, socketId, code) ==
  LET normalizedCode == normalize(code)
      r == addStudent(srv, normalizedCode, socketId)
      joined == socketJoin(srv.rooms, socketId, normalizedCode)
  IN  IF ~sessionExists(srv, normalizedCode)
      THEN Handled(srv, srv.lastFeedbackTime, joined,
                   << Emission("joinError", {socketId}, [message |-> "Invalid session code."]) >>)
      ELSE IF ~r.ret
      THEN Handled(r, srv.lastFeedbackTime, joined,
                   << Emission("joinError", {socketId}, [message |-> "Could not join session."]) >>)
      ELSE Handled(r, srv.lastFeedbackTime, joined,
                   << Emission("joinedSession", {socketId}, [code |-> normalizedCode]),
                      Emission("aggregateUpdate", RoomOf(joined, normalizedCode),
                               getAggregate(r, normalizedCode)) >>)

\* the joinSession handler computing the aggregate before addStudent
onJoinSession_AggregateBeforeAdd(srv, socketId, code) ==
  LET normalizedCode == normalize(code)
      r == addStudent(srv, normalizedCode, socketId)
      joined == socketJoin(srv.rooms, socketId, normalizedCode)
  IN  IF ~sessionExists(srv, normalizedCode)
      THEN Handled(srv, srv.lastFeedbackTime, srv.rooms,
                   << Emission("joinError", {socketId}, [message |-> "Invalid session code."]) >>)
      ELSE IF ~r.ret
      THEN Handled(r, srv.lastFeedbackTime, srv.rooms,
                   << Emission("joinError", {socketId}, [message |-> "Could not join session."]) >>)
      ELSE Handled(r, srv.lastFeedbackTime, joined,
                   << Emission("joinedSession", {socketId}, [code |-> normalizedCode]),
                      Emission("aggregateUpdate", RoomOf(joined, normalizedCode),
                               getAggregate(srv, normalizedCode)) >>)

onJoinSession(srv, socketId, code) ==
  LET normalizedCode == normalize(code)
      r == addStudent(srv, normalizedCode, socketId)
      joined == socketJoin(srv.rooms, socketId, normalizedCode)
  IN  IF ~sessionExists(srv, normalizedCode)
      THEN Handled(srv, srv.lastFeedbackTime, srv.rooms,
                   << Emission("joinError", {socketId}, [message |-> "Invalid session code."]) >>)
      ELSE IF ~r.ret
      THEN Handled(r, srv.lastFeedbackTime, srv.rooms,
                   << Emission("joinError", {socketId}, [message |-> "Could not join session."]) >>)
      ELSE Handled(r, srv.lastFeedbackTime, joined,
                   << Emission("joinedSession", {socketId}, [code |-> normalizedCode]),
                      Emission("aggregateUpdate", RoomOf(joined, normalizedCode),
                               getAggregate(r, normalizedCode)) >>)

\* the feedback handler with  now - last <= THROTTLE_MS  as its throttle test
onFeedback_InclusiveThrottle(srv, socketId, code, level, time) ==
  LET last == IF MapHas(srv.lastFeedbackTime, socketId)
              THEN srv.lastFeedbackTime[socketId] ELSE 0
      lft == MapSet(srv.lastFeedbackTime, socketId, time)
      normalizedCode == normalize(code)
      r == updateFeedback(srv, normalizedCode, socketId, level)
  IN  IF time - last <= THROTTLE_MS
      THEN Handled(srv, srv.lastFeedbackTime, srv.rooms, << >>)
      ELSE IF ~r.ret
      THEN Handled(r, lft, srv.rooms, << >>)
      ELSE Handled(r, lft, srv.rooms,
                   << Emission("aggregateUpdate", RoomOf(srv.rooms, normalizedCode),
                               getAggregate(r, normalizedCode)) >>)

\* the feedback handler computing the aggregate before updateFeedback is applied
onFeedback_AggregateBeforeUpdate(srv, socketId, code, level, time) ==
  LET last == IF MapHas(srv.lastFeedbackTime, socketId)
              THEN srv.lastFeedbackTime[socketId] ELSE 0
      lft == MapSet(srv.lastFeedbackTime, socketId, time)
      normalizedCode == normalize(code)
      r == updateFeedback(srv, normalizedCode, socketId, level)
  IN  IF time - last < THROTTLE_MS
      THEN Handled(srv, srv.lastFeedbackTime, srv.rooms, << >>)
      ELSE IF ~r.ret
      THEN Handled(r, lft, srv.rooms, << >>)
      ELSE Handled(r, lft, srv.rooms,
                   << Emission("aggregateUpdate", RoomOf(srv.rooms, normalizedCode),
                               getAggregate(srv, normalizedCode)) >>)

\* the feedback handler recording the timestamp only after updateFeedback succeeded
onFeedback_TimestampAfterUpdate(srv, socketId, code, level, time) ==
  LET last == IF MapHas(srv.lastFeedbackTime, socketId)
              THEN srv.lastFeedbackTime[socketId] ELSE 0
      lft == MapSet(srv.lastFeedbackTime, socketId, time)
      normalizedCode == normalize(code)
      r == updateFeedback(srv, normalizedCode, socketId, level)
  IN  IF time - last < THROTTLE_MS
      THEN Handled(srv, srv.lastFeedbackTime, srv.rooms, << >>)
      ELSE IF ~r.ret
      THEN Handled(r, srv.lastFeedbackTime, srv.rooms, << >>)
      ELSE Handled(r, lft, srv.rooms,
                   << Emission("aggregateUpdate", RoomOf(srv.rooms, normalizedCode),
                               getAggregate(r, normalizedCode)) >>)

onFeedback(srv, socketId, code, level, time) ==
  LET last == IF MapHas(srv.lastFeedbackTime, socketId)
              THEN srv.lastFeedbackTime[socketId] ELSE 0
      lft == MapSet(srv.lastFeedbackTime, socketId, time)
      normalizedCode == normalize(code)
      r == updateFeedback(srv, normalizedCode, socketId, level)
  IN  IF time - last < THROTTLE_MS
      THEN Handled(srv, srv.lastFeedbackTime, srv.rooms, << >>)
      ELSE IF ~r.ret
      THEN Handled(r, lft, srv.rooms, << >>)
      ELSE Handled(r, lft, srv.rooms,
                   << Emission("aggregateUpdate", RoomOf(srv.rooms, normalizedCode),
                               getAggregate(r, normalizedCode)) >>)

\* the endSession handler notifying the room only when endSession found a session
onEndSession_NotifiesIfEnded(srv, socketId, code) ==
  LET normalizedCode == normalize(code)
      r == endSession(srv, normalizedCode)
  IN  Handled(r, srv.lastFeedbackTime, srv.rooms,
              IF r.ret
              THEN << Emission("sessionEnded", RoomOf(srv.rooms, normalizedCode), Null) >>
              ELSE << >>)

onEndSession(srv, socketId, code) ==
  LET normalizedCode == normalize(code)
      r == endSession(srv, normalizedCode)
  IN  Handled(r, srv.lastFeedbackTime, srv.rooms,
              << Emission("sessionEnded", RoomOf(srv.rooms, normalizedCode), Null) >>)

\* the disconnect handler computing the aggregate before removeSocket
onDisconnect_AggregateBeforeRemove(srv, socketId) ==
  LET left == leaveAll(srv.rooms, socketId)
      lft == MapDelete(srv.lastFeedbackTime, socketId)
      r == removeSocket(srv, socketId)
      aggregate == getAggregate(srv, r.ret.code)
  IN  IF r.ret # Null /\ r.ret.role = "student" /\ aggregate # Null
      THEN Handled(r, lft, left,
                   << Emission("aggregateUpdate", RoomOf(left, r.ret.code), aggregate) >>)
      ELSE Handled(r, lft, left, << >>)

onDisconnect(srv, socketId) ==
  LET left == leaveAll(srv.rooms, socketId)
      lft == MapDelete(srv.lastFeedbackTime, socketId)
      r == removeSocket(srv, socketId)
      aggregate == getAggregate(r, r.ret.code)
  IN  IF r.ret # Null /\ r.ret.role = "student" /\ aggregate # Null
      THEN Handled(r, lft, left,
                   << Emission("aggregateUpdate", RoomOf(left, r.ret.code), aggregate) >>)
      ELSE Handled(r, lft, left, << >>)

(* ------------------------------- state -------------------------------- *)

VARIABLES
  sessions,          \* sessions.js: const sessions = new Map()
  socketToSession,   \* sessions.js: const socketToSession = new Map()
  lastFeedbackTime,  \* index.js: const lastFeedbackTime = new Map()
  rooms,             \* the transport's rooms
  status,            \* per socket id: "new", "open" or "closed"
  now,               \* Date.now()
  events,            \* number of steps taken so far (bounds the run)
  spinning           \* the process is inside generateCode's do-while with no code left

vars == << sessions, socketToSession, lastFeedbackTime, rooms, status, now, events, spinning >>

Server ==
  [sessions |-> sessions, socketToSession |-> socketToSession,
   lastFeedbackTime |-> lastFeedbackTime, rooms |-> rooms]

Init ==
  /\ sessions = EmptyMap
  /\ socketToSession = EmptyMap
  /\ lastFeedbackTime = EmptyMap
  /\ rooms = EmptyMap
  /\ status = [c \in Conns |-> "new"]
  /\ now = StartTime
  /\ events = 0
  /\ spinning = FALSE

\* the handler's result becomes the state of the process
Apply(h) ==
  /\ ~spinning
  /\ events < MaxEvents
  /\ events' = events + 1
  /\ sessions' = h.sessions
  /\ socketToSession' = h.socketToSession
  /\ lastFeedbackTime' = h.lastFeedbackTime
  /\ rooms' = h.rooms
  /\ spinning' = spinning

\* io.on("connection"): a socket id is handed out once; the ids are
\* interchangeable, and the transport hands them out in the order of ConnNames
OnConnection(c) ==
  /\ status[c] = "new"
  /\ \A i \in 1..MaxConns : ConnNames[i] = c => \A j \in 1..(i - 1) : status[ConnNames[j]] # "new"
  /\ ~spinning
  /\ status' = [status EXCEPT ![c] = "open"]
  /\ UNCHANGED << sessions, socketToSession, lastFeedbackTime, rooms, now, events, spinning >>

\* the single thread never leaves generateCode when every code it can draw
\* is a key of sessions: no handler runs after that
OnCreateSession(c) ==
  /\ status[c] = "open"
  /\ IF generateCode(Server) = {}
     THEN /\ ~spinning
          /\ events < MaxEvents
          /\ events' = events + 1
          /\ spinning' = TRUE
          /\ UNCHANGED << sessions, socketToSession, lastFeedbackTime, rooms >>
     ELSE \E code \in generateCode(Server) : Apply(onCreateSession(Server, c, code))
  /\ UNCHANGED << status, now >>

OnJoinSession(c) ==
  /\ status[c] = "open"
  /\ \E code \in CodeInputs : Apply(onJoinSession(Server, c, code))
  /\ UNCHANGED << status, now >>

OnFeedback(c) ==
  /\ status[c] = "open"
  /\ \E code \in CodeInputs, level \in LevelInputs :
        Apply(onFeedback(Server, c, code, level, now))
  /\ UNCHANGED << status, now >>

OnEndSession(c) ==
  /\ status[c] = "open"
  /\ \E code \in CodeInputs : Apply(onEndSession(Server, c, code))
  /\ UNCHANGED << status, now >>

OnDisconnect(c) ==
  /\ status[c] = "open"
  /\ Apply(onDisconnect(Server, c))
  /\ status' = [status EXCEPT ![c] = "closed"]
  /\ UNCHANGED now

Tick ==
  /\ now < StartTime + MaxTicks * TickMs
  /\ now' = now + TickMs
  /\ events < MaxEvents
  /\ events' = events + 1
  /\ UNCHANGED << sessions, socketToSession, lastFeedbackTime, rooms, status, spinning >>

Next ==
  \/ \E c \in Conns : OnConnection(c)
  \/ \E c \in Conns : OnCreateSession(c)
  \/ \E c \in Conns : OnJoinSession(c)
  \/ \E c \in Conns : OnFeedback(c)
  \/ \E c \in Conns : OnEndSession(c)
  \/ \E c \in Conns : OnDisconnect(c)
  \/ Tick

Spec == Init /\ [][Next]_vars

(* ============================== claims ================================ *)

Participants(sess, code) == DOMAIN sess[code].clients
IsOwner(c) == \E k \in DOMAIN sessions : sessions[k].teacherSocketId = c
IsParticipant(c) == \E k \in DOMAIN sessions : c \in Participants(sessions, k)
RegistryCodes == AllCodes \cup {<< >>}

\* C1: a reverse-index entry for connection c exists if and only if c is the
\* owner of some existing session or is in some session's participant map.
\* Stated for the connections that are still open, so that a teacher's
\* disconnect, which keeps the session, plays no part.
C1_ReverseIndexIffMember ==
  \A c \in Conns :
    status[c] = "open" => (MapHas(socketToSession, c) <=> (IsOwner(c) \/ IsParticipant(c)))

\* C2: once the disconnect of connection c has been handled, c is in no
\* session's participant map and has no reverse-index entry.
C2_DisconnectRemovesEverywhere ==
  \A c \in Conns :
    status[c] = "closed" => ~MapHas(socketToSession, c) /\ ~IsParticipant(c)

\* C3: no session's participant map contains the session owner's own
\* connection identifier.
C3_OwnerNeverParticipant ==
  \A k \in DOMAIN sessions : sessions[k].teacherSocketId \notin Participants(sessions, k)

\* C4: createSession never returns the key of an active session and never
\* alters an existing session; the code it returns has length 6 over the
\* 32-symbol alphabet, and the next createSession returns a different code.
C4_CreateSessionFreshCode ==
  /\ Cardinality(Range(chars)) = 32
  /\ \A t \in Conns : \A code \in generateCode(Server) :
       LET r == createSession(Server, t, code)
       IN  /\ r.ret = code
           /\ ~MapHas(sessions, code)
           /\ Len(code) = 6
           /\ \A i \in 1..Len(code) : code[i] \in Range(chars)
           /\ DOMAIN r.sessions = (DOMAIN sessions) \cup {code}
           /\ \A k \in DOMAIN sessions : r.sessions[k] = sessions[k]
           /\ \A code2 \in generateCode(r) : code2 # code

\* two sessions exist side by side: createSession has returned twice
C4_Witness ==
  /\ Cardinality(DOMAIN sessions) >= 2
  /\ \A k \in DOMAIN sessions : Len(k) = 6

\* C5: a feedback event of connection c less than 500 time units after c's
\* previous accepted one changes nothing and emits nothing; one that comes 500
\* or more after it is admitted and its time recorded, so two admitted
\* feedback events of one connection are at least 500 apart.
C5_ThrottleDropsAndAdmits ==
  \A c \in DOMAIN lastFeedbackTime : \A code \in CodeInputs : \A level \in LevelInputs :
    \A h \in {onFeedback(Server, c, code, level, now)} :
        IF now - lastFeedbackTime[c] < 500
        THEN /\ h.sessions = sessions
             /\ h.socketToSession = socketToSession
             /\ h.lastFeedbackTime = lastFeedbackTime
             /\ h.rooms = rooms
             /\ h.out = << >>
        ELSE /\ h.lastFeedbackTime[c] = now
             /\ h.lastFeedbackTime[c] - lastFeedbackTime[c] >= 500

\* a participant whose accepted feedback took effect less than 500 ago, so
\* that its next feedback, with another valid level, is dropped
C5_Witness ==
  \E c \in DOMAIN lastFeedbackTime : \E k \in DOMAIN sessions :
    /\ now - lastFeedbackTime[c] = TickMs
    /\ c \in Participants(sessions, k)
    /\ sessions[k].clients[c] = "confused"
    /\ onFeedback(Server, c, Decorated(k), "lost", now).sessions = sessions

\* C6: updateFeedback with a level that is not one of the four, or a missing
\* session, or a connection that is no participant of the session, returns
\* false and leaves the registry and every aggregate unchanged.
C6_UpdateFeedbackRejects ==
  \A before \in {[k \in RegistryCodes |-> getAggregate(Server, k)]} :
  \A code \in RegistryCodes : \A c \in Conns : \A level \in LevelInputs :
    (\/ level \notin {"gotit", "neutral", "confused", "lost"}
     \/ ~MapHas(sessions, code)
     \/ c \notin Participants(sessions, code))
    => \A r \in {updateFeedback(Server, code, c, level)} :
           /\ r.ret = FALSE
           /\ r.sessions = sessions
           /\ r.socketToSession = socketToSession
           /\ [k \in RegistryCodes |-> getAggregate(r, k)] = before

\* a session with a participant whose level was set, and an open connection
\* that is no participant of it
C6_Witness ==
  \E k \in DOMAIN sessions : \E p \in Participants(sessions, k) : \E q \in Conns :
    /\ sessions[k].clients[p] # "neutral"
    /\ status[q] = "open"
    /\ q \notin Participants(sessions, k)

\* C7: a feedback event of connection c changes at most c's own level in the
\* session its code names: every other level, every session's owner and
\* membership, and the reverse index stay as they were.
C7_FeedbackTouchesOwnLevelOnly ==
  \A c \in Conns : \A code \in CodeInputs : \A level \in LevelInputs :
    status[c] = "open"
    => \A h \in {onFeedback(Server, c, code, level, now)} :
        /\ h.socketToSession = socketToSession
        /\ DOMAIN h.sessions = DOMAIN sessions
        /\ \A k \in DOMAIN sessions :
             /\ h.sessions[k].teacherSocketId = sessions[k].teacherSocketId
             /\ Participants(h.sessions, k) = Participants(sessions, k)
             /\ \A p \in Participants(sessions, k) :
                  h.sessions[k].clients[p] # sessions[k].clients[p]
                  => p = c /\ k = normalize(code)

\* two participants of one session, one of which has changed its level while
\* the other still holds the level it joined with
C7_Witness ==
  \E k \in DOMAIN sessions : \E p, q \in Participants(sessions, k) :
    /\ p # q
    /\ sessions[k].clients[p] # "neutral"
    /\ sessions[k].clients[q] = "neutral"
    /\ MapHas(lastFeedbackTime, p)

Holding(code, level) == {p \in Participants(sessions, code) : sessions[code].clients[p] = level}

\* C8: for an existing session getAggregate gives, per level, the number of
\* participants holding it, total is the number of participants, and the four
\* counts add up to total; for a missing session it gives null.
C8_AggregateCounts ==
  \A code \in RegistryCodes :
    LET a == getAggregate(Server, code)
    IN  IF MapHas(sessions, code)
        THEN /\ a.gotit = Cardinality(Holding(code, "gotit"))
             /\ a.neutral = Cardinality(Holding(code, "neutral"))
             /\ a.confused = Cardinality(Holding(code, "confused"))
             /\ a.lost = Cardinality(Holding(code, "lost"))
             /\ a.total = Cardinality(Participants(sessions, code))
             /\ a.gotit + a.neutral + a.confused + a.lost = a.total
        ELSE a = Null

\* the spec's example: two participants, one lost and one neutral, and a
\* session code that is missing
C8_Witness ==
  /\ \E k \in DOMAIN sessions :
       getAggregate(Server, k) = [gotit |-> 0, neutral |-> 1, confused |-> 0, lost |-> 1, total |-> 2]
  /\ \E k \in AllCodes : ~MapHas(sessions, k)

References(s2s, code) == {c \in DOMAIN s2s : s2s[c].code = code}

\* C9: endSession on an existing session removes it and leaves no
\* reverse-index entry that references its code; a second endSession of the
\* same code returns false and changes nothing.
C9_EndSessionPurges ==
  \A code \in DOMAIN sessions :
    LET r1 == endSession(Server, code)
        r2 == endSession(r1, code)
    IN  /\ r1.ret = TRUE
        /\ ~MapHas(r1.sessions, code)
        /\ References(r1.socketToSession, code) = {}
        /\ r2.ret = FALSE
        /\ r2.sessions = r1.sessions
        /\ r2.socketToSession = r1.socketToSession

\* a session with its owner's and a participant's reverse-index entry, next to
\* a room left behind by a session that was ended
C9_Witness ==
  /\ \E code \in DOMAIN sessions :
       /\ sessions[code].teacherSocketId \in References(socketToSession, code)
       /\ \E p \in Participants(sessions, code) :
            p \in References(socketToSession, code) /\ p # sessions[code].teacherSocketId
  /\ \E code \in DOMAIN rooms : ~MapHas(sessions, code)

\* C10: removeSocket(c), c recorded as a student of session k, removes c from
\* k's participant map and c's reverse-index entry, returns {k, student}, and
\* getAggregate(k) afterwards has total one less and the count of c's former
\* level one less, the other counts unchanged.
C10_RemoveStudent ==
  \A c \in DOMAIN socketToSession :
    socketToSession[c].role = "student"
    => LET k == socketToSession[c].code
           r == removeSocket(Server, c)
           before == getAggregate(Server, k)
           after == getAggregate(r, k)
       IN  /\ MapHas(sessions, k)
           /\ c \in Participants(sessions, k)
           /\ r.ret = [code |-> k, role |-> "student"]
           /\ Participants(r.sessions, k) = Participants(sessions, k) \ {c}
           /\ ~MapHas(r.socketToSession, c)
           /\ after.total = before.total - 1
           /\ \A level \in {"gotit", "neutral", "confused", "lost"} :
                after[level] = before[level] - (IF sessions[k].clients[c] = level THEN 1 ELSE 0)

\* a student holding a level other than the default, in a session with a
\* second participant
C10_Witness ==
  \E c \in DOMAIN socketToSession :
    /\ socketToSession[c].role = "student"
    /\ MapHas(sessions, socketToSession[c].code)
    /\ c \in Participants(sessions, socketToSession[c].code)
    /\ sessions[socketToSession[c].code].clients[c] = "confused"
    /\ Cardinality(Participants(sessions, socketToSession[c].code)) = 2

Teachers == {t \in DOMAIN socketToSession : socketToSession[t].role = "teacher"}
Students == {c \in DOMAIN socketToSession : socketToSession[c].role = "student"}
Throttled(c) == MapHas(lastFeedbackTime, c) /\ now - lastFeedbackTime[c] < THROTTLE_MS
AggregateUpdates(out) == {i \in 1..Len(out) : out[i].event = "aggregateUpdate"}

\* C11: removeSocket(t), t recorded as a teacher, deletes only t's
\* reverse-index entry: the session keeps its owner field and its participant
\* map; the disconnect handler emits nothing; afterwards another connection
\* can still join the session and its feedback is accepted.
C11_TeacherLeavesSessionIntact ==
  \A t \in Teachers :
    \A r \in {removeSocket(Server, t)} : \A h \in {onDisconnect(Server, t)} :
      /\ r.ret = socketToSession[t]
      /\ r.sessions = sessions
      /\ r.socketToSession = MapDelete(socketToSession, t)
      /\ h.out = << >>
      /\ h.sessions = sessions
      /\ h.socketToSession = r.socketToSession
      /\ MapHas(h.sessions, r.ret.code)
      /\ h.sessions[r.ret.code].teacherSocketId = t
      /\ \A q \in Conns \ {t} :
           \A j \in {onJoinSession(h, q, Decorated(r.ret.code))} :
             /\ q \in Participants(j.sessions, r.ret.code)
             /\ j.out[1].event = "joinedSession"
             /\ ~Throttled(q)
                => \A level \in {"gotit", "confused", "lost"} :
                      onFeedback(j, q, Decorated(r.ret.code), level, now)
                        .sessions[r.ret.code].clients[q] = level

\* a session whose owner has disconnected, with an open participant whose
\* feedback was accepted
C11_Witness ==
  \E k \in DOMAIN sessions : \E p \in Participants(sessions, k) :
    /\ status[sessions[k].teacherSocketId] = "closed"
    /\ status[p] = "open"
    /\ sessions[k].clients[p] = "lost"
    /\ MapHas(lastFeedbackTime, p)

\* C12: a join-session event whose normalized code names no existing session
\* emits exactly one join-error, to the requester only, subscribes the
\* requester to no room and changes no registry state; the session still
\* does not exist afterwards.
C12_FailedJoinChangesNothing ==
  \A c \in Conns : \A code \in CodeInputs :
    (status[c] = "open" /\ ~MapHas(sessions, normalize(code)))
    => \A h \in {onJoinSession(Server, c, code)} :
         /\ Len(h.out) = 1
         /\ h.out[1].event = "joinError"
         /\ h.out[1].to = {c}
         /\ h.rooms = rooms
         /\ h.sessions = sessions
         /\ h.socketToSession = socketToSession
         /\ h.lastFeedbackTime = lastFeedbackTime
         /\ ~sessionExists(h, normalize(code))

\* an open connection that is in no room and no session, next to a live
\* session with a participant, while a code is still missing and the empty
\* code names nothing either
C12_Witness ==
  /\ \E c \in Conns :
       /\ status[c] = "open"
       /\ ~MapHas(socketToSession, c)
       /\ \A k \in DOMAIN rooms : c \notin rooms[k]
  /\ \E k \in DOMAIN sessions : Participants(sessions, k) # {}
  /\ \E k \in AllCodes : ~MapHas(sessions, k) /\ normalize(Decorated(k)) = k
  /\ normalize(<< >>) = << >>

\* C13: a join-session event for an existing session adds the requester as a
\* participant with level neutral and a student reverse-index entry,
\* subscribes it to the session's room, emits joined-session to the requester
\* only and then an aggregate-update, computed after the insertion, to every
\* connection of the room, the joiner and the connected instructor included.
C13_JoinAddsAndBroadcasts ==
  \A c \in Conns : \A code \in CodeInputs :
    (status[c] = "open" /\ MapHas(sessions, normalize(code)))
    => \A k \in {normalize(code)} : \A h \in {onJoinSession(Server, c, code)} :
         /\ Participants(h.sessions, k) = Participants(sessions, k) \cup {c}
         /\ h.sessions[k].clients[c] = "neutral"
         /\ h.socketToSession[c] = [code |-> k, role |-> "student"]
         /\ h.rooms[k] = RoomOf(rooms, k) \cup {c}
         /\ Len(h.out) = 2
         /\ h.out[1] = Emission("joinedSession", {c}, [code |-> k])
         /\ h.out[2].event = "aggregateUpdate"
         /\ h.out[2].to = h.rooms[k]
         /\ c \in h.out[2].to
         /\ status[sessions[k].teacherSocketId] = "open"
            => sessions[k].teacherSocketId \in h.out[2].to
         /\ h.out[2].payload = getAggregate(h, k)
         /\ h.out[2].payload.total = Cardinality(Participants(sessions, k) \cup {c})
         /\ h.out[2].payload.neutral >= 1

\* a student that has joined the session of a connected instructor: it holds
\* neutral, has its student entry, and shares the room with the instructor
C13_Witness ==
  \E k \in DOMAIN sessions : \E p \in Participants(sessions, k) :
    /\ p # sessions[k].teacherSocketId
    /\ sessions[k].clients[p] = "neutral"
    /\ MapHas(socketToSession, p)
    /\ socketToSession[p] = [code |-> k, role |-> "student"]
    /\ RoomOf(rooms, k) = {p, sessions[k].teacherSocketId}
    /\ getAggregate(Server, k).total = 1

\* C14: a student's disconnect emits an aggregate-update to the remaining
\* members of the room if and only if the session its reverse-index entry
\* records still exists, and that aggregate no longer counts the student; a
\* disconnect handled after the session was ended emits nothing; in every
\* case the connection's rate-limit timestamp is cleared.
C14_DisconnectAfterEndIsSilent ==
  \A c \in Conns :
    status[c] = "open"
    => /\ \A h \in {onDisconnect(Server, c)} :
            /\ ~MapHas(h.lastFeedbackTime, c)
            /\ IF c \in Students /\ MapHas(sessions, socketToSession[c].code)
               THEN \A k \in {socketToSession[c].code} :
                      /\ Len(h.out) = 1
                      /\ h.out[1].event = "aggregateUpdate"
                      /\ h.out[1].to = RoomOf(rooms, k) \ {c}
                      /\ c \notin Participants(h.sessions, k)
                      /\ h.out[1].payload = getAggregate(h, k)
                      /\ h.out[1].payload.total = Cardinality(Participants(sessions, k) \ {c})
               ELSE h.out = << >>
       /\ c \in Students
          => \A e \in Conns :
               status[e] = "open"
               => \A ended \in {onEndSession(Server, e, Decorated(socketToSession[c].code))} :
                  \A h \in {onDisconnect(ended, c)} :
                    /\ ~MapHas(ended.sessions, socketToSession[c].code)
                    /\ h.out = << >>
                    /\ ~MapHas(h.lastFeedbackTime, c)
                    /\ h.sessions = ended.sessions

\* the session was ended while both its instructor and a student that had
\* sent feedback were connected: the two are still in its room, with no
\* reverse-index entry, and the disconnect of either emits nothing
C14_Witness ==
  \E k \in DOMAIN rooms : \E c \in rooms[k] :
    /\ ~MapHas(sessions, k)
    /\ Cardinality(rooms[k]) = 2
    /\ \A m \in rooms[k] : status[m] = "open" /\ ~MapHas(socketToSession, m)
    /\ MapHas(lastFeedbackTime, c)
    /\ onDisconnect(Server, c).out = << >>

\* C15: an end-session event emits session-ended to the room named by the
\* normalized code whether or not a session with that code exists; the
\* recipients are the room as it is when the handler starts, before the
\* registry is purged; after the handler the session does not exist.
C15_EndSessionAlwaysNotifies ==
  \A code \in CodeInputs : \A k \in {normalize(code)} :
    \A notice \in {Emission("sessionEnded", RoomOf(rooms, k), Null)} :
      \A c \in Conns :
        status[c] = "open"
        => \A h \in {onEndSession(Server, c, code)} :
             /\ h.out = << notice >>
             /\ ~MapHas(h.sessions, k)
             /\ h.rooms = rooms
             /\ DOMAIN h.sessions = DOMAIN sessions \ {k}

\* a room that outlived its session and still has a connected member, next
\* to a live session: end-session reaches the first without a session and
\* purges the second
C15_Witness ==
  /\ \E k \in DOMAIN rooms :
       /\ ~MapHas(sessions, k)
       /\ \E m \in rooms[k] :
            /\ status[m] = "open"
            /\ onEndSession(Server, m, Decorated(k)).out[1].to = rooms[k]
  /\ DOMAIN sessions # {}

\* C16: createSession always succeeds: in every reachable state the code
\* generation loop has a code to return (some drawable code is not the key
\* of an active session), and no createSession call is left spinning in
\* its do-while loop.
C16_CreateSessionAlwaysReturns ==
  /\ generateCode(Server) # {}
  /\ ~spinning

\* the sessions of the registry before a handler that exist after it with a
\* different participant map
Changed(h) ==
  {k \in DOMAIN sessions \cap DOMAIN h.sessions :
     h.sessions[k].clients # sessions[k].clients}

\* every session the handler changed and kept has an aggregate-update in the
\* handler's emissions, sent to its room, carrying its aggregate after the change
Broadcasts(h) ==
  h.sessions # sessions
  => \A k \in Changed(h) :
       \E i \in AggregateUpdates(h.out) :
         /\ h.out[i].to = RoomOf(h.rooms, k)
         /\ h.out[i].payload = getAggregate(h, k)

\* C17: whenever a handler changes the participant map of a session that
\* continues to exist, the same handler step emits an aggregate-update to
\* that session's room whose payload is getAggregate of the state after the
\* change; throttled feedback, feedback rejected by updateFeedback, failed
\* joins and the disconnect of a connection recorded as teacher emit no
\* aggregate-update (stated contrapositively: a handler that emits one is
\* none of these).  It holds in every state of every behaviour.
C17_ChangeIsBroadcast ==
  [] \A c \in Conns :
       status[c] = "open"
       => /\ \A code \in CodeInputs :
               /\ \A h \in {onJoinSession(Server, c, code)} :
                    /\ Broadcasts(h)
                    /\ AggregateUpdates(h.out) # {} => MapHas(sessions, normalize(code))
               /\ \A h \in {onEndSession(Server, c, code)} : Broadcasts(h)
               /\ \A level \in LevelInputs :
                    \A h \in {onFeedback(Server, c, code, level, now)} :
                      /\ Broadcasts(h)
                      /\ AggregateUpdates(h.out) # {}
                         => /\ ~Throttled(c)
                            /\ updateFeedback(Server, normalize(code), c, level).ret
          /\ \A h \in {onDisconnect(Server, c)} :
               /\ Broadcasts(h)
               /\ AggregateUpdates(h.out) # {} => c \notin Teachers
          /\ \A code \in generateCode(Server) :
               Broadcasts(onCreateSession(Server, c, code))

\* a participant whose admitted feedback moved it to lost, still inside its
\* throttle window, in the session of a connection recorded as teacher: its
\* next feedback is dropped without a broadcast, its disconnect is broadcast
C17_Witness ==
  \E k \in DOMAIN sessions : \E p \in Participants(sessions, k) :
    /\ sessions[k].clients[p] = "lost"
    /\ status[p] = "open"
    /\ Throttled(p)
    /\ sessions[k].teacherSocketId \in Teachers
    /\ sessions[k].teacherSocketId # p
    /\ AggregateUpdates(onFeedback(Server, p, Decorated(k), "gotit", now).out) = {}
    /\ k \in Changed(onDisconnect(Server, p))

\* C18: in every reachable state every participant of every session holds
\* exactly one level, one of gotit, neutral, confused, lost; a participant
\* holds neutral from its join until its first successful updateFeedback:
\* addStudent sets neutral, a connected participant that never passed the
\* throttle holds neutral, and an updateFeedback of a participant holding
\* neutral leaves it at neutral unless it returns true.
C18_OneLevelNeutralFirst ==
  /\ \A k \in DOMAIN sessions : \A p \in Participants(sessions, k) :
       /\ sessions[k].clients[p] \in Levels
       /\ (status[p] = "open" /\ ~MapHas(lastFeedbackTime, p))
          => sessions[k].clients[p] = "neutral"
       /\ sessions[k].clients[p] = "neutral"
          => \A level \in LevelInputs :
               \A r \in {updateFeedback(Server, k, p, level)} :
                 /\ r.sessions[k].clients[p] \in Levels
                 /\ r.sessions[k].clients[p] # "neutral" => r.ret /\ level \in Levels
                 /\ ~r.ret => r.sessions[k].clients[p] = "neutral"
  /\ \A k \in DOMAIN sessions : \A c \in Conns :
       status[c] = "open"
       => \A r \in {addStudent(Server, k, c)} :
            /\ r.sessions[k].clients[c] = "neutral"
            /\ \A h \in {onJoinSession(Server, c, Decorated(k))} :
                 h.sessions[k].clients[c] = "neutral"

\* a session with a participant that has moved off neutral and a connected
\* participant that joined and has sent no feedback yet
C18_Witness ==
  \E k \in DOMAIN sessions : \E p, q \in Participants(sessions, k) :
    /\ p # q
    /\ sessions[k].clients[p] \in Levels \ {"neutral"}
    /\ MapHas(lastFeedbackTime, p)
    /\ status[q] = "open"
    /\ ~MapHas(lastFeedbackTime, q)
    /\ sessions[k].clients[q] = "neutral"

\* C19: addStudent(code, c) for a connection c that is already a participant
\* of that session returns true, resets c's level to neutral, and leaves
\* the participant count and every other participant's level unchanged;
\* applying it twice in a row yields the same state as applying it once.
C19_RejoinResetsToNeutral ==
  \A k \in DOMAIN sessions : \A c \in Participants(sessions, k) :
    \A r1 \in {addStudent(Server, k, c)} :
      /\ r1.ret = TRUE
      /\ r1.sessions[k].clients[c] = "neutral"
      /\ Participants(r1.sessions, k) = Participants(sessions, k)
      /\ MapSize(r1.sessions[k].clients) = MapSize(sessions[k].clients)
      /\ \A p \in Participants(sessions, k) \ {c} :
           r1.sessions[k].clients[p] = sessions[k].clients[p]
      /\ \A j \in DOMAIN sessions \ {k} : r1.sessions[j] = sessions[j]
      /\ DOMAIN r1.sessions = DOMAIN sessions
      /\ addStudent(r1, k, c) = r1

\* a participant that has moved off neutral, in a session with a second
\* participant, whose re-join changes the registry
C19_Witness ==
  \E k \in DOMAIN sessions : \E c, p \in Participants(sessions, k) :
    /\ c # p
    /\ sessions[k].clients[c] \in {"gotit", "confused", "lost"}
    /\ addStudent(Server, k, c).sessions # sessions

\* C20: in every reachable state, if the reverse index maps connection c to
\* {code, student} then session code exists and c is in its participant
\* map; if it maps c to {code, teacher} then session code exists and c is
\* its owner; no reverse-index entry names a deleted session.
C20_EntryNamesLiveSession ==
  \A c \in DOMAIN socketToSession :
    \A e \in {socketToSession[c]} :
      /\ MapHas(sessions, e.code)
      /\ e.role \in {"student", "teacher"}
      /\ e.role = "student" => c \in Participants(sessions, e.code)
      /\ e.role = "teacher" => sessions[e.code].teacherSocketId = c

\* after a session with an owner and a second member was ended: its room is
\* left without a session, the member has no entry, and the owner's entry
\* is the teacher entry of a session created afterwards
C20_Witness ==
  \E t \in Teachers : \E c \in Conns \ DOMAIN socketToSession :
    \E k \in DOMAIN rooms :
      /\ status[c] = "open"
      /\ ~MapHas(sessions, k)
      /\ {t, c} \subseteq rooms[k]
      /\ socketToSession[t].code # k

\* C21: a connection is a participant of at most one session at a time: in
\* every reachable state no connection identifier is a key of the
\* participant maps of two different sessions.
C21_AtMostOneSession ==
  \A c \in Conns : \A j, k \in DOMAIN sessions :
    (c \in Participants(sessions, j) /\ c \in Participants(sessions, k)) => j = k

\* C22: endSession(code) deletes only reverse-index entries that reference
\* code: every entry that references a different, still existing session is
\* the same after the call.
C22_EndSessionKeepsOtherEntries ==
  \A code \in DOMAIN sessions :
    \A r \in {endSession(Server, code)} :
      \A c \in DOMAIN socketToSession :
        (socketToSession[c].code # code /\ MapHas(r.sessions, socketToSession[c].code))
        => /\ MapHas(r.socketToSession, c)
           /\ r.socketToSession[c] = socketToSession[c]

\* delays shorter than the throttle window, and the first one that is not
Sooner == {0, TickMs, THROTTLE_MS - 1}

\* a feedback event of participant c of session k, sent at time, is dropped
Dropped(srv, c, k, level, time) ==
  \A g \in {onFeedback(srv, c, Decorated(k), level, time)} :
    /\ g.sessions = srv.sessions
    /\ g.socketToSession = srv.socketToSession
    /\ g.lastFeedbackTime = srv.lastFeedbackTime
    /\ g.out = << >>

\* C23: the rate-limit timestamp is recorded before the update is validated:
\* a feedback event that passes the throttle but is rejected by
\* updateFeedback (invalid level, unknown code, or sender not a participant)
\* still sets the sender's timestamp to the time of the event, changes no
\* session and emits nothing (its result is the server as it was, with that
\* timestamp), and from that result every valid feedback event of the same
\* connection less than 500 later is dropped; one sent 500 later is not.
\* It holds in every state of every behaviour.
C23_RejectedFeedbackStartsThrottle ==
  [] \A c \in Conns :
       (status[c] = "open" /\ ~Throttled(c))
       => \A after \in {Handled(Server, MapSet(lastFeedbackTime, c, now), rooms, << >>)} :
            /\ after.lastFeedbackTime[c] = now
            /\ \A code \in CodeInputs : \A level \in LevelInputs :
                 ~updateFeedback(Server, normalize(code), c, level).ret
                 => onFeedback(Server, c, code, level, now) = after
            /\ \A k \in DOMAIN sessions : \A valid \in Levels :
                 c \in Participants(sessions, k)
                 => /\ \A dt \in Sooner : Dropped(after, c, k, valid, now + dt)
                    /\ ~Dropped(after, c, k, valid, now + THROTTLE_MS)

\* a connected participant still at neutral whose timestamp is the current
\* time, as a rejected feedback event leaves it: its valid feedback now and
\* one tick later is dropped
C23_Witness ==
  \E k \in DOMAIN sessions : \E c \in Participants(sessions, k) :
    /\ status[c] = "open"
    /\ sessions[k].clients[c] = "neutral"
    /\ MapHas(lastFeedbackTime, c)
    /\ lastFeedbackTime[c] = now
    /\ Dropped(Server, c, k, "lost", now)
    /\ Dropped(Server, c, k, "lost", now + TickMs)
    /\ ~Dropped(Server, c, k, "lost", now + THROTTLE_MS)

\* every aggregate-update among the handler's emissions goes only to the
\* owner and the participants that session k has when it is emitted
Addressed(h, k) ==
  \A i \in AggregateUpdates(h.out) :
    /\ MapHas(h.sessions, k)
    /\ h.out[i].to \subseteq {h.sessions[k].teacherSocketId} \cup Participants(h.sessions, k)

\* C24: every aggregate-update emitted for session code k is delivered only
\* to connections that are, when it is emitted, the owner or a participant
\* of the session with code k; a connection that was in room k before that
\* session was ended receives no aggregate of a later session with code k.
C24_AggregateOnlyToMembers ==
  \A c \in Conns :
    status[c] = "open"
    => /\ \A code \in CodeInputs :
            /\ Addressed(onJoinSession(Server, c, code), normalize(code))
            /\ \A level \in LevelInputs :
                 Addressed(onFeedback(Server, c, code, level, now), normalize(code))
       /\ MapHas(socketToSession, c)
          => Addressed(onDisconnect(Server, c), socketToSession[c].code)

====
